---- MODULE Spec2Model ----
(***************************************************************************)
(* Model of src/main.py: class MarkdownEditor, a Tk window holding a text  *)
(* widget (text_editor), an HTML preview, a status bar and the current     *)
(* file path, together with the files it reads and writes.                 *)
(*                                                                         *)
(* One action per event handler.  The handlers run to completion on the    *)
(* single Tk dispatch loop, so each is one atomic step.                    *)
(***************************************************************************)
EXTENDS Integers, Sequences, FiniteSets, TLC

(***************************************************************************)
(* Bounds of the model.                                                    *)
(***************************************************************************)
\* the user types only while the text is shorter than this
MaxLen == 1
\* capacity of the disk for one file: a longer write fails
MaxFileLen == 2

(***************************************************************************)
(* Characters, bytes and paths.                                            *)
(***************************************************************************)
LF == "\n"
CR == "\r"
\* a byte that is not valid UTF-8
BAD == "0xFF"

\* the keys the user types
Chars == {"a"}

\* a path is <<directory, base name>>
Paths == { <<"docs", "a.md">>, <<"tmp", "b.md">> }
\* the path that may hold a file at startup, and what it may hold
InitPath == <<"docs", "a.md">>
InitialFiles == { <<>>, <<"#", "a">>, <<CR>>, <<"a", BAD>> }
\* self.current_file = None
None == <<"None">>
\* a path that names no file on disk
NoFile == <<"NoFile">>
\* a file dialog dismissed without a choice returns the empty string
NoChoice == <<"">>
\* no file dialog was shown
NoDialog == <<"no dialog">>

(***************************************************************************)
(* Python text-mode file I/O, encoding='utf-8', newline=None.              *)
(***************************************************************************)
\* f.read() raises UnicodeDecodeError on a byte sequence that is not UTF-8
Decodable(bytes) == \A i \in 1..Len(bytes) : bytes[i] # BAD

\* universal newlines on input: "\r\n" and "\r" are read as "\n"
RECURSIVE f_read(_)
f_read(bytes) ==
    IF bytes = <<>> THEN <<>>
    ELSE IF Head(bytes) = CR
         THEN IF Len(bytes) >= 2 /\ bytes[2] = LF
              THEN <<LF>> \o f_read(SubSeq(bytes, 3, Len(bytes)))
              ELSE <<LF>> \o f_read(Tail(bytes))
         ELSE <<Head(bytes)>> \o f_read(Tail(bytes))

\* os.linesep of the platform (POSIX)
linesep == <<LF>>

\* on output every "\n" is written as os.linesep
RECURSIVE f_write(_)
f_write(text) ==
    IF text = <<>> THEN <<>>
    ELSE (IF Head(text) = LF THEN linesep ELSE <<Head(text)>>) \o f_write(Tail(text))

(***************************************************************************)
(* The Tk text widget.  buffer is its content without the newline that Tk  *)
(* keeps after the last character; modified is its modified flag.          *)
(***************************************************************************)
\* text_editor.get(1.0, tk.END): everything up to END, final newline included
Get(buf) == buf \o <<LF>>

\* text_editor.delete(1.0, tk.END): the flag is raised when text was removed
text_delete(s) ==
    [s EXCEPT !.buffer = <<>>,
              !.modified = s.modified \/ s.buffer # <<>>]

\* text_editor.insert(tk.END, text): the flag is raised when text was added
text_insert(s, text) ==
    [s EXCEPT !.buffer = s.buffer \o text,
              !.modified = s.modified \/ text # <<>>]

(***************************************************************************)
(* markdown(content, extras=["fenced-code-blocks", "tables"]) on the       *)
(* characters of Chars: the text is cut into lines, an ATX header line     *)
(* becomes a heading, a run of other non-blank lines becomes a paragraph.  *)
(* HTML is a sequence of elements [tag, text].                             *)
(***************************************************************************)
RECURSIVE SplitLines(_, _)
\* the lines of text, cur being the line read so far
SplitLines(text, cur) ==
    IF text = <<>> THEN IF cur = <<>> THEN <<>> ELSE <<cur>>
    ELSE IF Head(text) = LF THEN <<cur>> \o SplitLines(Tail(text), <<>>)
         ELSE SplitLines(Tail(text), Append(cur, Head(text)))

RECURSIVE LeadingHashes(_)
LeadingHashes(line) ==
    IF line # <<>> /\ Head(line) = "#" THEN 1 + LeadingHashes(Tail(line)) ELSE 0

RECURSIVE StripTrailingHashes(_)
\* the title keeps at least one character
StripTrailingHashes(line) ==
    IF Len(line) > 1 /\ line[Len(line)] = "#"
    THEN StripTrailingHashes(SubSeq(line, 1, Len(line) - 1))
    ELSE line

\* ^(\#{1,6})[ \t]*(.+?)[ \t]*\#*\n+ : the heading of a line, or <<>>
Header(line) ==
    LET k == LeadingHashes(line)
        g == IF k > 6 THEN 6 ELSE k
        rest == SubSeq(line, g + 1, Len(line))
    IN  IF k = 0 THEN <<>>
        ELSE IF rest # <<>>
             THEN <<[tag |-> <<"h", g>>, text |-> StripTrailingHashes(rest)]>>
             ELSE IF k >= 2
                  THEN <<[tag |-> <<"h", k - 1>>, text |-> <<"#">>]>>
                  ELSE <<>>

\* a paragraph of the lines gathered so far
Paragraph(para) ==
    IF para = <<>> THEN <<>> ELSE <<[tag |-> <<"p", 0>>, text |-> para]>>

RECURSIVE Blocks(_, _)
Blocks(lines, para) ==
    IF lines = <<>> THEN Paragraph(para)
    ELSE LET line == Head(lines) IN
         IF line = <<>> THEN Paragraph(para) \o Blocks(Tail(lines), <<>>)
         ELSE IF Header(line) # <<>>
              THEN Paragraph(para) \o Header(line) \o Blocks(Tail(lines), <<>>)
              ELSE Blocks(Tail(lines),
                          IF para = <<>> THEN line ELSE para \o <<LF>> \o line)

markdown(content) == Blocks(SplitLines(content, <<>>), <<>>)

\* HTMLLabel(paned, html="<h3>...</h3>"): the placeholder shown at startup
InitialHtml == <<[tag |-> <<"h", 3>>, text |-> <<"placeholder">>]>>

\* a renderer that adds the new document after the one displayed
set_html_appending(shown, html) == shown \o html

\* preview.set_html(html): the new document replaces the one displayed
set_html(shown, html) == html

(***************************************************************************)
(* State.                                                                  *)
(***************************************************************************)
VARIABLES
    buffer,        \* text_editor content
    modified,      \* text_editor.edit_modified()
    current_file,  \* self.current_file
    preview,       \* HTML displayed by self.preview
    title,         \* window title
    status_var,    \* status bar text
    disk,          \* content of each path, or NoFile
    last           \* what the last handler did: dialogs answered, messages shown

vars == <<buffer, modified, current_file, preview, title, status_var, disk, last>>

AppName == "Simineq Markdown Editor"
\* os.path.basename(file_path)
basename(path) == path[2]

\* the fields a document operation reads and writes
Doc == [buffer |-> buffer, modified |-> modified, current_file |-> current_file,
        title |-> title, status_var |-> status_var, disk |-> disk,
        errors |-> <<>>, writes |-> <<>>, raised |-> <<>>]

\* the record of a handler: op, the answer to the save prompt, the path
\* returned by the file dialog, the error boxes shown, the paths opened
\* for writing, the exceptions the file operations raised
Did(op, prompt, dialog, s) ==
    [op |-> op, prompt |-> prompt, dialog |-> dialog,
     errors |-> s.errors, writes |-> s.writes, raised |-> s.raised]

\* open(), f.read() or f.write() raises exc inside the try block
raise(s, exc) == [s EXCEPT !.raised = Append(@, exc)]

Commit(s) ==
    /\ buffer' = s.buffer
    /\ modified' = s.modified
    /\ current_file' = s.current_file
    /\ title' = s.title
    /\ status_var' = s.status_var
    /\ disk' = s.disk

\* a constructor that puts a greeting into the editor
Init_with_text ==
    /\ buffer = <<"a">>
    /\ modified = TRUE
    /\ current_file = None
    /\ preview = InitialHtml
    /\ title = <<AppName>>
    /\ status_var = <<>>
    /\ \E bytes \in InitialFiles \cup {NoFile} :
          disk = [p \in Paths |-> IF p = InitPath THEN bytes ELSE NoFile]
    /\ last = [op |-> "init", prompt |-> "none", dialog |-> NoDialog,
               errors |-> <<>>, writes |-> <<>>, raised |-> <<>>]

Init ==
    /\ buffer = <<>>
    /\ modified = FALSE
    /\ current_file = None
    /\ preview = InitialHtml
    /\ title = <<AppName>>
    /\ status_var = <<>>
    /\ \E bytes \in InitialFiles \cup {NoFile} :
          disk = [p \in Paths |-> IF p = InitPath THEN bytes ELSE NoFile]
    /\ last = [op |-> "init", prompt |-> "none", dialog |-> NoDialog,
               errors |-> <<>>, writes |-> <<>>, raised |-> <<>>]


(***************************************************************************)
(* Editing: the Text widget's own key bindings (no handler of main.py).    *)
(***************************************************************************)
\* a printable key or Return is pressed: the character is inserted
KeyPress ==
    \E c \in Chars :
        /\ Len(buffer) < MaxLen
        /\ Commit(text_insert(Doc, <<c>>))
        /\ last' = Did("keypress", "none", NoDialog, Doc)
        /\ UNCHANGED preview

\* BackSpace is pressed: the last character is removed
BackSpace ==
    /\ buffer # <<>>
    /\ Commit([Doc EXCEPT !.buffer = SubSeq(buffer, 1, Len(buffer) - 1),
                          !.modified = TRUE])
    /\ last' = Did("keypress", "none", NoDialog, Doc)
    /\ UNCHANGED preview

(***************************************************************************)
(* update_preview, bound to <KeyRelease> of the text widget.               *)
(***************************************************************************)
update_preview ==
    /\ preview' = set_html(preview, markdown(Get(buffer)))
    /\ last' = Did("update_preview", "none", NoDialog, Doc)
    /\ UNCHANGED <<buffer, modified, current_file, title, status_var, disk>>

(***************************************************************************)
(* save_file and save_as_file.  io is what the filesystem does with the    *)
(* write: "ok", "open" (open(path, 'w') raises, the file is untouched) or  *)
(* "write" (the file was opened, hence truncated, and the write raises).   *)
(***************************************************************************)
IoOutcomes == {"ok", "open", "write"}

ReadErrorBox == "read failed"
WriteErrorBox == "save failed"

\* a write longer than the disk's capacity fails
Outcome(text, io) ==
    IF io = "ok" /\ Len(text) > MaxFileLen THEN "write" ELSE io

\* a handler that lowers the modified flag although the write failed
save_failed_clearing(s) ==
    [s EXCEPT !.errors = Append(@, WriteErrorBox), !.modified = FALSE]

\* except Exception: messagebox.showerror(...)
save_failed(s) == [s EXCEPT !.errors = Append(@, WriteErrorBox)]

\* the branch of save_file taken when self.current_file is set
save_try(s, io) ==
    LET path == s.current_file
        text == f_write(Get(s.buffer))
        tried == [s EXCEPT !.writes = Append(@, path)]
    IN  CASE Outcome(text, io) = "open" -> save_failed(raise(tried, "OSError"))
          [] Outcome(text, io) = "write" ->
                save_failed(raise([tried EXCEPT !.disk[path] = <<>>], "OSError"))
          [] OTHER ->
                [tried EXCEPT !.disk[path] = text,
                              !.modified = FALSE,
                              !.status_var = <<"saved", path>>]

\* a save-as that takes the empty answer of the dialog for a path
save_as_unchecked(s, chosen, io) ==
    IF chosen # NoChoice
    THEN save_try([s EXCEPT !.current_file = chosen], io)
    ELSE save_failed(raise([s EXCEPT !.current_file = chosen], "OSError"))

\* a save-as that names the document and forgets to save it
save_as_naming_only(s, chosen, io) ==
    IF chosen # NoChoice THEN [s EXCEPT !.current_file = chosen] ELSE s

\* save_as_file, chosen being the answer of asksaveasfilename
save_as(s, chosen, io) ==
    IF chosen # NoChoice
    THEN save_try([s EXCEPT !.current_file = chosen], io)
    ELSE s

\* save_file
save(s, chosen, io) ==
    IF s.current_file # None THEN save_try(s, io) ELSE save_as(s, chosen, io)

\* the answers the save-as dialog can give when save(s, ...) shows it
SaveDialog(s) == IF s.current_file # None THEN {NoDialog} ELSE Paths \cup {NoChoice}

save_file ==
    \E chosen \in SaveDialog(Doc), io \in IoOutcomes :
        LET s == save(Doc, chosen, io) IN
        /\ Commit(s)
        /\ last' = Did("save", "none", chosen, s)
        /\ UNCHANGED preview

save_as_file ==
    \E chosen \in Paths \cup {NoChoice}, io \in IoOutcomes :
        LET s == save_as(Doc, chosen, io) IN
        /\ Commit(s)
        /\ last' = Did("save_as", "none", chosen, s)
        /\ UNCHANGED preview

(***************************************************************************)
(* new_file.                                                               *)
(***************************************************************************)
\* askyesnocancel: True, False or None
Answers == {"yes", "no", "cancel"}

\* a prompt whose cancel answer is taken for "no"
PromptNeverAborts(choice) == FALSE

\* if choice is None: return
PromptAborts(choice) == choice = "cancel"

\* a new() that also empties the file the document came from
clear_document_and_file(s) ==
    [text_delete(s) EXCEPT !.current_file = None,
                           !.title = <<"untitled", AppName>>,
                           !.status_var = <<"created">>,
                           !.disk = [p \in Paths |->
                                       IF p = s.current_file THEN <<>> ELSE s.disk[p]]]

\* the statements after the prompt
clear_document(s) ==
    [text_delete(s) EXCEPT !.current_file = None,
                           !.title = <<"untitled", AppName>>,
                           !.status_var = <<"created">>]

new(s, choice, chosen, io) ==
    IF s.modified
    THEN IF PromptAborts(choice) THEN s
         ELSE IF choice = "yes" THEN clear_document(save(s, chosen, io))
              ELSE clear_document(s)
    ELSE clear_document(s)

new_file ==
    \E choice \in (IF modified THEN Answers ELSE {"none"}) :
    \E chosen \in (IF choice = "yes" THEN SaveDialog(Doc) ELSE {NoDialog}) :
    \E io \in (IF choice = "yes" THEN IoOutcomes ELSE {"ok"}) :
        LET s == new(Doc, choice, chosen, io) IN
        /\ Commit(s)
        /\ last' = Did("new", choice, chosen, s)
        /\ UNCHANGED preview

(***************************************************************************)
(* open_file, chosen being the answer of askopenfilename.                  *)
(***************************************************************************)
\* an except branch that swallows the error without telling the user
open_failed_silent(s) == s

\* except Exception: messagebox.showerror(...)
open_failed(s) == [s EXCEPT !.errors = Append(@, ReadErrorBox)]

\* an open that adds the file to the text already in the editor
open_keeping(s, chosen) ==
    IF chosen = NoChoice THEN s
    ELSE IF s.disk[chosen] = NoFile THEN open_failed(raise(s, "OSError"))
    ELSE IF ~Decodable(s.disk[chosen])
         THEN open_failed(raise(s, "UnicodeDecodeError"))
         ELSE [text_insert(s, f_read(s.disk[chosen])) EXCEPT
                  !.current_file = chosen,
                  !.title = <<basename(chosen), AppName>>,
                  !.status_var = <<"opened", chosen>>]

open(s, chosen) ==
    IF chosen = NoChoice THEN s
    ELSE IF s.disk[chosen] = NoFile THEN open_failed(raise(s, "OSError"))
    ELSE LET cleared == text_delete(s) IN
         IF ~Decodable(s.disk[chosen])
         THEN open_failed(raise(cleared, "UnicodeDecodeError"))
         ELSE [text_insert(cleared, f_read(s.disk[chosen])) EXCEPT
                  !.current_file = chosen,
                  !.title = <<basename(chosen), AppName>>,
                  !.status_var = <<"opened", chosen>>]

open_file ==
    \E chosen \in Paths \cup {NoChoice} :
        LET s == open(Doc, chosen) IN
        /\ Commit(s)
        /\ last' = Did("open", "none", chosen, s)
        /\ UNCHANGED preview

(***************************************************************************)
(* show_about: an information box, no state of the document is touched.    *)
(***************************************************************************)
show_about ==
    /\ last' = Did("about", "none", NoDialog, Doc)
    /\ UNCHANGED <<buffer, modified, current_file, preview, title, status_var, disk>>

Next ==
    \/ KeyPress
    \/ BackSpace
    \/ update_preview
    \/ new_file
    \/ open_file
    \/ save_file
    \/ save_as_file
    \/ show_about

Spec == Init /\ [][Next]_vars


(***************************************************************************)
(* Properties.                                                             *)
(***************************************************************************)
\* the handler whose record is r opened a file and loaded it
OpenedOk(r) == r.op = "open" /\ r.dialog \in Paths /\ r.errors = <<>>
\* the handler whose record is r wrote a file and the write succeeded
WroteOk(r) == r.writes # <<>> /\ r.errors = <<>>
\* the Markdown conversion of the buffer is on display
PreviewCurrent == preview = markdown(buffer)

\* C1: when open fails, one ReadError box is shown and buffer, filePath and
\* modified are what they were before the attempt.
C1_FailedOpenKeepsState ==
    [][ (last'.op = "open" /\ last'.errors # <<>>) =>
          /\ last'.errors = <<ReadErrorBox>>
          /\ buffer' = buffer
          /\ current_file' = current_file
          /\ modified' = modified ]_vars

\* C2: a successful open(p) immediately followed by a successful save()
\* leaves the file at p byte for byte as it was.
C2_OpenSaveRoundTrip ==
    [][ (OpenedOk(last) /\ last'.op = "save" /\ WroteOk(last')) =>
          disk'[current_file] = disk[current_file] ]_vars

\* C3: new() with modified = true and the answer cancel changes neither the
\* buffer, filePath nor modified, and writes no file.
C3_CancelledNewChangesNothing ==
    [][ (modified /\ last'.op = "new" /\ last'.prompt = "cancel") =>
          /\ buffer' = buffer
          /\ current_file' = current_file
          /\ modified' = modified
          /\ disk' = disk
          /\ last'.writes = <<>> ]_vars

\* C3: new() was cancelled on a modified, non-empty document
C3_Witness ==
    /\ last.op = "new" /\ last.prompt = "cancel"
    /\ modified /\ buffer # <<>>

\* C4: after every handler that changed the buffer (a keystroke once its
\* key-release handler has run, a successful open, a new() not cancelled)
\* the preview shows the Markdown conversion of the buffer.
C4_PreviewAfterEveryChange ==
    [][ /\ last'.op = "update_preview" => PreviewCurrent'
        /\ (buffer' # buffer /\ last'.op \in {"open", "new"}) => PreviewCurrent' ]_vars

\* C5: when save() runs with filePath set and the write fails, one
\* WriteError box is shown, the write is tried once, and buffer, filePath and
\* modified are what they were when the save ran.
C5_FailedSaveKeepsState ==
    [][ /\ (last'.op = "save" /\ current_file # None /\ last'.errors # <<>>) =>
              /\ last'.errors = <<WriteErrorBox>>
              /\ Len(last'.writes) = 1
              /\ buffer' = buffer
              /\ current_file' = current_file
              /\ modified' = modified
        /\ (last'.op \in {"save", "save_as"} /\ last'.errors # <<>>) =>
              /\ last'.errors = <<WriteErrorBox>>
              /\ last'.writes = <<current_file'>>
              /\ buffer' = buffer
              /\ modified' = modified ]_vars

\* C5: a save of a modified document to its own path failed
C5_Witness ==
    /\ last.op = "save" /\ last.dialog = NoDialog
    /\ last.errors = <<WriteErrorBox>>
    /\ modified /\ buffer # <<>>

\* C6: save() with filePath unset and a path p chosen in the save-as dialog
\* ends with filePath = p; if the write succeeded the file at p holds the
\* buffer content and modified is false.
C6_SaveUnnamedGoesToChosenPath ==
    [][ (last'.op = "save" /\ current_file = None /\ last'.dialog \in Paths) =>
          /\ current_file' = last'.dialog
          /\ WroteOk(last') =>
                /\ disk'[last'.dialog] = f_write(buffer')
                /\ ~modified' ]_vars

\* C7: a new() that is not cancelled ends with an empty buffer, filePath
\* unset and modified = false.
C7_NewResetsDocument ==
    [][ (last'.op = "new" /\ last'.prompt # "cancel") =>
          /\ buffer' = <<>>
          /\ current_file' = None
          /\ ~modified' ]_vars

\* C8: immediately after a successful open(path), modified is false.
C8_OpenedDocumentUnmodified ==
    OpenedOk(last) => ~modified

\* C9: after a successful save modified is false and stays false until the
\* next edit; an edit sets modified, which then stays true until the next
\* successful save.
C9_ModifiedTracksEdits ==
    [][ /\ (last'.op \in {"save", "save_as"} /\ WroteOk(last')) => ~modified'
        /\ (last.op \in {"save", "save_as"} /\ WroteOk(last) /\ last'.op # "keypress")
              => ~modified'
        /\ last'.op = "keypress" => modified'
        /\ (modified /\ ~modified') => WroteOk(last') ]_vars

\* C10: after the key-release handler the preview is exactly the Markdown
\* conversion of the whole buffer, nothing of the previous preview is kept.
C10_PreviewAfterKeystroke ==
    last.op = "update_preview" => PreviewCurrent

\* C10: the preview of a non-empty document was rendered over earlier content
C10_Witness ==
    /\ last.op = "update_preview"
    /\ buffer # <<>>
    /\ preview # <<>>


\* C11: every error raised by the file operations of open or save (also a
\* save reached through save-as or through new()) is caught in the handler
\* and shown as exactly one error box; the handler runs on to its end and the
\* next event can be handled.
C11_ErrorsCaughtAndShownOnce ==
    /\ Len(last.raised) <= 1
    /\ last.raised = <<>> => last.errors = <<>>
    /\ last.raised # <<>> =>
          /\ last.errors = IF last.op = "open" THEN <<ReadErrorBox>>
                           ELSE <<WriteErrorBox>>
          /\ last.op = "new" => status_var = <<"created">>
          /\ ENABLED Next

\* C11: the save asked for in the prompt of new() failed
C11_Witness ==
    /\ last.op = "new" /\ last.prompt = "yes"
    /\ last.raised = <<"OSError">>


\* C12: the application starts with an empty unnamed document: buffer empty,
\* filePath unset, modified = false; a new() as first event shows no prompt
\* and a save() as first event asks for a path.
C12_StartsEmptyAndUnnamed ==
    [][ last.op = "init" =>
          /\ buffer = <<>> /\ current_file = None /\ ~modified
          /\ last'.op = "new" => last'.prompt = "none"
          /\ last'.op = "save" => last'.dialog \in Paths \cup {NoChoice} ]_vars

\* C12: the first event was a save and the user chose a path
C12_Witness ==
    /\ last.op = "save" /\ last.dialog \in Paths
    /\ title = <<AppName>> /\ preview = InitialHtml /\ buffer = <<>>

\* C13: new() prompts exactly when modified is true; open() never prompts
\* and never writes, and a successful open replaces the buffer by the
\* content of the file, whatever modified was.
C13_OnlyNewGuardsUnsavedChanges ==
    [][ /\ last'.op = "new" => (last'.prompt \in Answers <=> modified)
        /\ last'.op = "open" =>
              /\ last'.prompt = "none"
              /\ last'.writes = <<>>
              /\ disk' = disk
        /\ OpenedOk(last') => buffer' = f_read(disk[last'.dialog]) ]_vars

\* C13: a file was opened over unsaved text, which is in no file
C13_Witness ==
    /\ OpenedOk(last)
    /\ buffer = <<"#", "a">>
    /\ \A p \in Paths : disk[p] \in {NoFile, <<"#", "a">>}
    /\ last.raised = <<>> /\ modified


\* C14: when the answer to the prompt of new() is save and the save did not
\* succeed (the write failed, or the save-as dialog was dismissed), new()
\* clears neither the buffer nor filePath.
C14_NewKeepsTextWhenSaveFails ==
    [][ (last'.op = "new" /\ last'.prompt = "yes" /\ ~WroteOk(last')) =>
          /\ buffer' = buffer
          /\ current_file # None => current_file' = current_file ]_vars

\* C15: a file dialog dismissed without a choice (open, save-as, or save of
\* an unnamed document) changes nothing: buffer, filePath, modified, title,
\* status text, preview and files are as before and no error box is shown.
C15_DismissedDialogIsNoOp ==
    [][ (last'.op \in {"open", "save", "save_as"} /\ last'.dialog = NoChoice) =>
          /\ UNCHANGED <<buffer, current_file, modified, title, status_var,
                         preview, disk>>
          /\ last'.errors = <<>>
          /\ last'.writes = <<>> ]_vars

\* C15: the save-as dialog was dismissed on a modified document
C15_Witness ==
    /\ last.op \in {"save", "save_as"} /\ last.dialog = NoChoice
    /\ modified /\ buffer # <<>>

\* C16: whenever filePath is set, the file at that path has been read by a
\* successful open or written by a successful save in this session (so it
\* exists); a save-as whose write fails does not leave filePath at the
\* chosen, never-written path.
C16_FilePathNamesReadOrWrittenFile ==
    current_file # None => disk[current_file] # NoFile

\* C16, amended: filePath is set only by a successful open of that path or
\* by a save-as that then attempts the write to it, whether the write
\* succeeds or not; a save-as whose write fails leaves filePath at the
\* chosen path.
C16_FilePathSetByOpenOrSaveAs ==
    [][ /\ (current_file' # None /\ current_file' # current_file) =>
              \/ OpenedOk(last') /\ last'.dialog = current_file'
              \/ /\ last'.op \in {"save", "save_as"}
                 /\ last'.dialog = current_file'
                 /\ last'.writes = <<current_file'>>
        /\ (last'.op \in {"save", "save_as"} /\ last'.dialog \in Paths) =>
              current_file' = last'.dialog ]_vars

\* C16: a save-as failed and filePath names the chosen file, which does not exist
C16_Witness ==
    /\ last.op \in {"save", "save_as"} /\ last.dialog \in Paths
    /\ last.errors = <<WriteErrorBox>>
    /\ current_file = last.dialog
    /\ disk[current_file] = NoFile

\* C17: only a save changes the filesystem: a step that changes a file is a
\* save (direct, through save-as, or the save answer of new()), it opens one
\* file for writing, the one filePath names at that moment, and changes no
\* other; key presses, preview, open and new() with discard or cancel change
\* no file.
C17_OnlySaveWritesOneFile ==
    [][ /\ disk' # disk =>
              /\ \/ last'.op \in {"save", "save_as"}
                 \/ last'.op = "new" /\ last'.prompt = "yes"
              /\ Len(last'.writes) = 1
              /\ \A p \in Paths : p # last'.writes[1] => disk'[p] = disk[p]
        /\ last'.writes # <<>> =>
              last'.writes = << IF last'.dialog \in Paths THEN last'.dialog
                                ELSE current_file >>
        /\ (last'.op \in {"save", "save_as"} /\ last'.writes # <<>>) =>
              last'.writes = <<current_file'>> ]_vars

\* C17: new() answered with save wrote the named document to its file
C17_Witness ==
    /\ last.op = "new" /\ last.prompt = "yes"
    /\ last.dialog = NoDialog /\ WroteOk(last)
    /\ disk[last.writes[1]] = <<"a", LF>>

\* C18: once a new, open or save-as has happened the window title agrees
\* with filePath: the base name of filePath when it is set, the title of an
\* unnamed document when it is not.
C18_TitleAgreesWithFilePath ==
    (title # <<AppName>> \/ (last.op = "save_as" /\ last.dialog \in Paths)) =>
        title = IF current_file = None THEN <<"untitled", AppName>>
                ELSE <<basename(current_file), AppName>>

====
